---- MODULE Spec2Model ----
(***************************************************************************)
(* A model of booru_downloader.py: the field probes over raw post records, *)
(* the filter chain and the fetch-and-persist loop of fetch_and_download.  *)
(*                                                                         *)
(* Python values are tagged records [t, v]: t is the Python type and v a   *)
(* sequence (<<n>> for an int, the characters for a str, the items for a   *)
(* list, <<>> for None).  A str is the sequence of its characters, so that *)
(* split, splitext, lower and join are computed, not assumed.              *)
(***************************************************************************)
EXTENDS Integers, Sequences, FiniteSets, TLC

\* ---------------------------------------------------------------- bounds
MaxImages == 2      \* max_images ranges over 0..MaxImages
MaxRecords == 2     \* the upstream holds at most this many records for the query
Epoch == 100        \* the clock reading (ms) at the start of the first run
MaxRatios == 2      \* --ratio is given at most this many values

\* ---------------------------------------------------------------- Python values
JNull == [t |-> "null", v |-> <<>>]
JInt(n) == [t |-> "int", v |-> <<n>>]
JStr(s) == [t |-> "str", v |-> s]
JList(l) == [t |-> "list", v |-> l]

\* bool(x) of a Python value
Truthy(x) ==
    CASE x.t = "null" -> FALSE
      [] x.t = "int" -> x.v[1] # 0
      [] OTHER -> x.v # <<>>

\* a or b
PyOr(a, b) == IF Truthy(a) THEN a ELSE b

\* post.get(k)
Get(post, k) == IF k \in DOMAIN post THEN post[k] ELSE JNull

Digits == <<"0", "1", "2", "3", "4", "5", "6", "7", "8", "9">>

IsDigit(c) == \E i \in 1..10 : Digits[i] = c

DigitVal(c) == (CHOOSE i \in 1..10 : Digits[i] = c) - 1

RECURSIVE DigitsVal(_)
DigitsVal(s) ==
    IF s = <<>> THEN 0
    ELSE 10 * DigitsVal(SubSeq(s, 1, Len(s) - 1)) + DigitVal(s[Len(s)])

AllDigits(s) == s # <<>> /\ \A i \in 1..Len(s) : IsDigit(s[i])

\* whether int(x) returns rather than raises
CanInt(x) ==
    CASE x.t = "int" -> TRUE
      [] x.t = "str" ->
            IF x.v # <<>> /\ x.v[1] = "-" THEN AllDigits(Tail(x.v)) ELSE AllDigits(x.v)
      [] OTHER -> FALSE

\* int(x), where CanInt(x)
IntOf(x) ==
    IF x.t = "int" THEN x.v[1]
    ELSE IF x.v[1] = "-" THEN 0 - DigitsVal(Tail(x.v)) ELSE DigitsVal(x.v)

RECURSIVE NatToStr(_)
NatToStr(n) ==
    IF n < 10 THEN <<Digits[n + 1]>>
    ELSE NatToStr(n \div 10) \o <<Digits[(n % 10) + 1]>>

\* str(n) of an int
IntToStr(n) == IF n < 0 THEN <<"-">> \o NatToStr(0 - n) ELSE NatToStr(n)

\* str(x) of a str, an int or None (the values an identifier or a tag field takes)
PyStr(x) ==
    CASE x.t = "str" -> x.v
      [] x.t = "int" -> IntToStr(x.v[1])
      [] x.t = "null" -> <<"N", "o", "n", "e">>
      [] OTHER -> <<"[", "]">>

Upper == <<"A", "B", "C", "D", "E", "F", "G", "H", "I", "J", "K", "L", "M",
           "N", "O", "P", "Q", "R", "S", "T", "U", "V", "W", "X", "Y", "Z">>

LowerOf == <<"a", "b", "c", "d", "e", "f", "g", "h", "i", "j", "k", "l", "m",
             "n", "o", "p", "q", "r", "s", "t", "u", "v", "w", "x", "y", "z">>

LowerChar(c) ==
    IF \E i \in 1..26 : Upper[i] = c
    THEN LowerOf[CHOOSE i \in 1..26 : Upper[i] = c]
    ELSE c

\* s.lower()
Lower(s) == [i \in 1..Len(s) |-> LowerChar(s[i])]

\* the last index of character c in s, 0 when there is none (str.rfind, 1-based)
RFind(s, c) ==
    IF \E i \in 1..Len(s) : s[i] = c
    THEN CHOOSE i \in 1..Len(s) : s[i] = c /\ \A j \in (i + 1)..Len(s) : s[j] # c
    ELSE 0

\* s.split("?")[0]
BeforeQuery(s) ==
    IF \E i \in 1..Len(s) : s[i] = "?"
    THEN SubSeq(s, 1, (CHOOSE i \in 1..Len(s) : s[i] = "?" /\ \A j \in 1..(i - 1) : s[j] # "?") - 1)
    ELSE s

\* os.path.splitext(p)[1]: from the last dot of the last path component, unless
\* that component has nothing but dots before it
SplitExt(p) ==
    LET sep == RFind(p, "/")
        dot == RFind(p, ".")
    IN  IF dot > sep /\ \E i \in (sep + 1)..(dot - 1) : p[i] # "."
        THEN SubSeq(p, dot, Len(p))
        ELSE <<>>

\* " ".join(l) of a list of strs
RECURSIVE Join(_)
Join(l) ==
    IF l = <<>> THEN <<>>
    ELSE IF Len(l) = 1 THEN l[1]
    ELSE l[1] \o <<" ">> \o Join(Tail(l))

\* ---------------------------------------------------------------- field access
Min(S) == CHOOSE m \in S : \A n \in S : m <= n

ImageUrlKeys == <<"file_url", "image_url", "image", "large_file_url", "source", "preview_file_url">>

\* get_image_url_from_post: the value of the first key that is present and truthy
get_image_url_from_post(post) ==
    LET hits == {i \in 1..Len(ImageUrlKeys) : Truthy(Get(post, ImageUrlKeys[i]))}
    IN  IF hits = {} THEN JNull ELSE post[ImageUrlKeys[Min(hits)]]

\* get_tags_from_post: tag_string unless absent or None, else tags (joined when a
\* list, str() of it otherwise), else the empty string
get_tags_from_post(post) ==
    IF "tag_string" \in DOMAIN post /\ post["tag_string"].t # "null"
    THEN post["tag_string"]
    ELSE IF "tags" \in DOMAIN post
    THEN IF post["tags"].t = "list" THEN JStr(Join(post["tags"].v))
         ELSE JStr(PyStr(post["tags"]))
    ELSE JStr(<<>>)

\* get_dimensions: <<int(w), int(h)>>, or <<None, None>> when either int() raises
get_dimensions(post) ==
    LET w == PyOr(PyOr(Get(post, "image_width"), Get(post, "width")), Get(post, "preview_width"))
        h == PyOr(PyOr(Get(post, "image_height"), Get(post, "height")), Get(post, "preview_height"))
    IN  IF CanInt(w) /\ CanInt(h) THEN <<JInt(IntOf(w)), JInt(IntOf(h))>>
        ELSE <<JNull, JNull>>

ScoreKeys == <<"score", "total_score", "rating_score", "fav_count", "up_score">>

\* get_score: int() of the first key that is present and converts
get_score(post) ==
    LET hits == {i \in 1..Len(ScoreKeys) :
                    ScoreKeys[i] \in DOMAIN post /\ CanInt(post[ScoreKeys[i]])}
    IN  IF hits = {} THEN JNull ELSE JInt(IntOf(post[ScoreKeys[Min(hits)]]))

\* ---------------------------------------------------------------- filter chain
VIDEO_EXTENSIONS ==
    { <<".", "m", "p", "4">>, <<".", "w", "e", "b", "m">>, <<".", "a", "v", "i">>,
      <<".", "m", "o", "v">>, <<".", "w", "m", "v">>, <<".", "f", "l", "v">>,
      <<".", "m", "k", "v">>, <<".", "g", "i", "f", "v">>, <<".", "g", "i", "f">> }

\* mutant: the extension is compared as it is written in the URL
ExtOf_AsWritten(image_url) == SplitExt(BeforeQuery(image_url.v))

\* os.path.splitext(image_url.split("?")[0])[1].lower(), for a str image_url (each
\* step is applied to the value of the step before)
ExtOf(image_url) ==
    CHOOSE ext \in {Lower(e) : e \in {SplitExt(p) : p \in {BeforeQuery(image_url.v)}}} : TRUE

Abs(n) == IF n < 0 THEN 0 - n ELSE n

\* abs(actual_r - target_ratio) <= target_ratio * 0.02 with actual_r = w / h and
\* target_ratio = num / den (den > 0), in exact arithmetic: both sides are
\* multiplied by 50 * |h| * den
WithinTolerance(w, h, target) ==
    50 * Abs(w * target.den - target.num * h) <= target.num * Abs(h)

\* lines 228-238: TRUE when the ratio step lets the post go on
RatioStep(ratios, w, h) ==
    IF ratios # <<>> /\ Truthy(w) /\ Truthy(h)
    THEN IF h.v[1] = 0 THEN FALSE
         ELSE \E i \in 1..Len(ratios) : WithinTolerance(w.v[1], h.v[1], ratios[i])
    ELSE TRUE

\* lines 239-240 and 241-242: TRUE when the minimum-dimension step lets the post go on
MinStep(minimum, d) ==
    ~ (minimum # 0 /\ (~ Truthy(d) \/ d.v[1] < minimum))

\* lines 243-246
ScoreStep(min_score, post) ==
    IF min_score.t # "null"
    THEN LET score == get_score(post)
         IN  ~ (score.t = "null" \/ score.v[1] < min_score.v[1])
    ELSE TRUE

\* lines 206-246: what the loop body does with a post before it looks at the disk
Classify(cfg, post) ==
    LET image_url == get_image_url_from_post(post)
        dims == get_dimensions(post)
    IN  IF ~ Truthy(image_url) THEN "no_url"
        ELSE IF image_url.t # "str" THEN "ext_error"
        ELSE IF ExtOf(image_url) \in VIDEO_EXTENSIONS THEN "video"
        ELSE IF ~ RatioStep(cfg.ratios, dims[1], dims[2]) THEN "ratio"
        ELSE IF ~ MinStep(cfg.min_w, dims[1]) THEN "min_w"
        ELSE IF ~ MinStep(cfg.min_h, dims[2]) THEN "min_h"
        ELSE IF ~ ScoreStep(cfg.min_score, post) THEN "min_score"
        ELSE "accept"

\* ---------------------------------------------------------------- destination paths
JpgExt == <<".", "j", "p", "g">>

TxtExt == <<".", "t", "x", "t">>

\* line 250: the identifier, with the clock reading now (ms) as the fallback
PostId(post, now) ==
    PyStr(PyOr(PyOr(PyOr(Get(post, "id"), Get(post, "post_id")), Get(post, "file_id")),
               JStr(IntToStr(now))))

\* lines 253-257
ImgPath(post, now) ==
    LET ext == ExtOf(get_image_url_from_post(post))
    IN  [dir |-> "images", name |-> PostId(post, now) \o (IF ext = <<>> THEN JpgExt ELSE ext)]

\* line 258
TxtPath(post, now) == [dir |-> "tags", name |-> PostId(post, now) \o TxtExt]

\* whether line 250 reads the clock
NeedsClock(post) ==
    ~ Truthy(PyOr(PyOr(Get(post, "id"), Get(post, "post_id")), Get(post, "file_id")))

\* ---------------------------------------------------------------- rate limiter
\* A float is the exact fraction num/den, den > 0.
Frac(n, d) == [num |-> n, den |-> d]

\* mutant: the limiter waits one second when rps is not positive
Interval_Floor(rps) == IF rps.num > 0 THEN Frac(rps.den, rps.num) ELSE Frac(1, 1)

\* line 184: 1.0 / rps if rps > 0 else 0
Interval(rps) == IF rps.num > 0 THEN Frac(rps.den, rps.num) ELSE Frac(0, 1)

\* sane_sleep: the calls of time.sleep so far, after sane_sleep(interval_s)
sane_sleep(interval_s, slept) ==
    IF interval_s.num > 0 THEN Append(slept, interval_s) ELSE slept

\* ---------------------------------------------------------------- ratio expressions
Pow10(n) == IF n = 0 THEN 1 ELSE IF n = 1 THEN 10 ELSE IF n = 2 THEN 100 ELSE 1000

\* float(s) of a str made of digits, ".", "-", ":" , "/" and letters: an optional
\* minus sign, then digits with at most one point and at least one digit; ok is
\* FALSE when float raises ValueError
PyFloat(s) ==
    LET neg == s # <<>> /\ s[1] = "-"
        body == IF neg THEN Tail(s) ELSE s
        dots == {i \in 1..Len(body) : body[i] = "."}
        digits == SelectSeq(body, IsDigit)
        valid == /\ Cardinality(dots) <= 1
                 /\ digits # <<>>
                 /\ \A i \in (1..Len(body)) \ dots : IsDigit(body[i])
        decimals == IF dots = {} THEN 0 ELSE Len(body) - (CHOOSE i \in dots : TRUE)
    IN  IF valid
        THEN [ok |-> TRUE,
              val |-> Frac((IF neg THEN -1 ELSE 1) * DigitsVal(digits), Pow10(decimals))]
        ELSE [ok |-> FALSE, val |-> Frac(0, 1)]

\* float(a) / float(b) of a str that holds sep: the unpacking a,b = r.split(sep)
\* raises ValueError unless sep occurs once, float raises ValueError, and the
\* division raises ZeroDivisionError
Quotient(r, sep) ==
    LET at == {i \in 1..Len(r) : r[i] = sep}
        cut == CHOOSE i \in at : TRUE
        a == PyFloat(SubSeq(r, 1, cut - 1))
        b == PyFloat(SubSeq(r, cut + 1, Len(r)))
    IN  IF Cardinality(at) # 1 \/ ~ a.ok \/ ~ b.ok
        THEN [kind |-> "ValueError", val |-> Frac(0, 1)]
        ELSE IF b.val.num = 0
        THEN [kind |-> "ZeroDivisionError", val |-> Frac(0, 1)]
        ELSE [kind |-> "ok",
              val |-> IF b.val.num > 0
                      THEN Frac(a.val.num * b.val.den, a.val.den * b.val.num)
                      ELSE Frac(0 - a.val.num * b.val.den, 0 - a.val.den * b.val.num)]

\* parse_ratio
parse_ratio(r) ==
    IF \E i \in 1..Len(r) : r[i] = ":" THEN Quotient(r, ":")
    ELSE IF \E i \in 1..Len(r) : r[i] = "/" THEN Quotient(r, "/")
    ELSE IF PyFloat(r).ok THEN [kind |-> "ok", val |-> PyFloat(r).val]
    ELSE [kind |-> "ValueError", val |-> Frac(0, 1)]

\* ---------------------------------------------------------------- requests
\* lines 146-153: the basic-auth pair of the paginated dialect
AuthOf(cfg) ==
    IF cfg.api_type = "danbooru" /\ Truthy(cfg.username) /\ Truthy(cfg.api_key)
    THEN JList(<<cfg.username.v, cfg.api_key.v>>)
    ELSE JNull

\* mutant: the API key is sent as soon as it is configured, with or without a user
AuthParams_KeyAlone(cfg) ==
    IF cfg.api_type # "danbooru" /\ Truthy(cfg.api_key)
    THEN << [k |-> "api_key", v |-> cfg.api_key], [k |-> "user_id", v |-> cfg.username] >>
    ELSE <<>>

\* lines 146-153: the credential query parameters of the offset dialect
AuthParams(cfg) ==
    IF cfg.api_type # "danbooru" /\ Truthy(cfg.api_key) /\ Truthy(cfg.username)
    THEN << [k |-> "api_key", v |-> cfg.api_key], [k |-> "user_id", v |-> cfg.username] >>
    ELSE <<>>

\* build_posts_url: the endpoint and the query parameters in the order urlencode
\* writes them
build_posts_url(api_type, page, limit, tags) ==
    IF api_type = "danbooru"
    THEN [endpoint |-> "posts.json",
          params |-> (IF Truthy(tags) THEN << [k |-> "tags", v |-> tags] >> ELSE <<>>)
                     \o << [k |-> "page", v |-> JInt(page)], [k |-> "limit", v |-> JInt(limit)] >>]
    ELSE [endpoint |-> "index.php",
          params |-> << [k |-> "page", v |-> JStr(<<"d", "a", "p", "i">>)],
                        [k |-> "s", v |-> JStr(<<"p", "o", "s", "t">>)],
                        [k |-> "q", v |-> JStr(<<"i", "n", "d", "e", "x">>)],
                        [k |-> "json", v |-> JStr(<<"1">>)],
                        [k |-> "pid", v |-> JInt(page)],
                        [k |-> "limit", v |-> JInt(limit)] >>
                     \o (IF Truthy(tags) THEN << [k |-> "tags", v |-> tags] >> ELSE <<>>)]

\* mutant: the offset dialect is sent the 1-based loop index
ReqPage_NoOffset(api_type, page) == page

\* lines 174-177: the cursor sent for loop index page
ReqPage(api_type, page) == IF api_type = "danbooru" THEN page ELSE page - 1

\* lines 173-181: the URL of the page request for loop index page
PageUrl(cfg, page) ==
    LET url == build_posts_url(cfg.api_type, ReqPage(cfg.api_type, page), cfg.per_page,
                               cfg.tag_query)
    IN  IF AuthParams(cfg) # <<>> /\ cfg.api_type # "danbooru"
        THEN [url EXCEPT !.params = @ \o AuthParams(cfg)]
        ELSE url

\* the values a URL carries under query parameter k
ParamValues(url, k) == {url.params[i].v : i \in {j \in 1..Len(url.params) : url.params[j].k = k}}

\* ---------------------------------------------------------------- responses
JDict(d) == [t |-> "dict", v |-> <<d>>]

EmptyDict == [t |-> "dict", v |-> <<>>]

\* data.get(k) of a decoded JSON object
DictGet(data, k) ==
    IF data.v # <<>> /\ k \in DOMAIN data.v[1] THEN data.v[1][k] ELSE JNull

\* lines 194-196, for a decoded body that is a list or an object
NormalizePosts(data) ==
    IF data.t = "list" THEN data.v
    ELSE LET posts == PyOr(PyOr(PyOr(DictGet(data, "post"), DictGet(data, "posts")),
                                DictGet(data, "posts")), JList(<<>>))
         IN  IF posts.t = "dict" THEN <<posts.v[1]>> ELSE posts.v

\* line 194 raises AttributeError on a decoded body that is neither
NormalizeRaises(data) == data.t \notin {"list", "dict"}

\* ---------------------------------------------------------------- upstream records
UrlA == <<"/", "a", ".", "j", "p", "g">>

UrlB == <<"/", "b", ".", "P", "N", "G", "?", "k">>

UrlC == <<"/", "c", ".", "G", "I", "F">>

UrlD == <<"h", ".", "o", "/", "d">>

\* a Danbooru-style record that every filter configuration below accepts
PostA ==
    [id |-> JInt(1), file_url |-> JStr(UrlA), tag_string |-> JStr(<<"x">>),
     image_width |-> JInt(16), image_height |-> JInt(9), score |-> JInt(5)]

\* a DAPI-style record, 4:3 and of low score
PostB ==
    [id |-> JInt(2), file_url |-> JStr(UrlB), tags |-> JList(<< <<"p">>, <<"q">> >>),
     width |-> JInt(4), height |-> JInt(3), score |-> JInt(1)]

\* an animation
PostC ==
    [id |-> JInt(3), file_url |-> JStr(UrlC), tags |-> JStr(<<"x">>),
     width |-> JInt(16), height |-> JInt(9), score |-> JInt(9)]

\* a record with no identifier, no dimensions and no score, its URL without extension
PostD == [source |-> JStr(UrlD), tags |-> JStr(<<"y">>)]

\* a record with no image URL
PostE == [id |-> JInt(4), file_url |-> JNull, tag_string |-> JStr(<<"x">>)]

Posts == {PostA, PostB, PostC, PostD}

\* the lists of at most n records
PageLists(n) == UNION {[1..k -> Posts] : k \in 0..n}

\* the decoded bodies the upstream may answer a page request with, holding at most
\* n records: a bare list, or one of the object shapes
Bodies(n) ==
    {JList(l) : l \in PageLists(n)}
    \cup (IF n >= 1
          THEN {JDict([post |-> JDict(PostB)]), JDict(PostA), EmptyDict, JNull}
          ELSE {EmptyDict})

\* ---------------------------------------------------------------- configurations
NoFilter == [ratios |-> <<>>, min_w |-> 0, min_h |-> 0, min_score |-> JNull]

RatioFilter == [ratios |-> << [num |-> 16, den |-> 9] >>, min_w |-> 0, min_h |-> 0, min_score |-> JNull]

AllFilters ==
    [ratios |-> << [num |-> 1, den |-> 1], [num |-> 16, den |-> 9] >>,
     min_w |-> 10, min_h |-> 5, min_score |-> JInt(3)]

Filters == {NoFilter, RatioFilter, AllFilters}

\* dialect, credentials, filters and request rate, varied together
Variants ==
    { [api_type |-> "danbooru", cred |-> JNull, filter |-> NoFilter, rps |-> Frac(2, 1)],
      [api_type |-> "dapi", cred |-> JStr(<<"u">>), filter |-> RatioFilter, rps |-> Frac(0, 1)],
      [api_type |-> "danbooru", cred |-> JStr(<<"u">>), filter |-> AllFilters, rps |-> Frac(1, 2)],
      [api_type |-> "dapi", cred |-> JNull, filter |-> AllFilters, rps |-> Frac(-1, 1)] }

\* the page sizes of the runs: 1, where every page with a record is a full one, and 2
PerPages == {1, 2}

Configs ==
    { [api_type |-> x.api_type, max_images |-> m, per_page |-> pp,
       ratios |-> x.filter.ratios, min_w |-> x.filter.min_w, min_h |-> x.filter.min_h,
       min_score |-> x.filter.min_score, rps |-> x.rps,
       tag_query |-> JStr(<<"t">>), username |-> x.cred, api_key |-> x.cred] :
      x \in Variants, m \in 0..MaxImages, pp \in PerPages }

\* ---------------------------------------------------------------- state
VARIABLES
    cfg,          \* the arguments of fetch_and_download, the same in every run
    files,        \* the output directory: records [path, src, complete]
    upstream,     \* the decoded body the upstream holds for page 1, 2, ... (as far as asked)
    clock,        \* the last clock reading, in ms
    run,          \* which run of fetch_and_download this is: the first, or the re-run
    pc,           \* where the run is: while, for, download, tags, page_end, summary, done,
                  \* crashed; in main(): main, aborted (line 314), main_crashed
    page,         \* line 170
    downloaded,   \* line 169
    posts,        \* line 194: the records of the page at hand
    idx,          \* the position of the for loop of line 201 in posts
    dest,         \* <<[img, txt, url, tags]>> while a record is between lines 257 and 274
    requests,     \* the page requests issued by this run, in order
    image_gets,   \* how many image requests this run has issued
    written,      \* the paths this run has created or written
    existing,     \* how many records this run counted at line 262
    processed,    \* how many records this run took past the budget check of line 202
    seen,         \* [img, url] of the records this run took to line 260
    refused,      \* how many image requests of this run ended at line 108
    fetch_failed, \* whether line 191 was reached in this run
    reported,     \* the count printed by line 280, None before
    prev,         \* <<[reported, fetch_failed, refused, pc, files]>> of the run before
    sleeps,       \* the intervals this run has passed to time.sleep, in order
    ratio_args    \* the --ratio values main() was started with; <<>> when none was
                  \* given or fetch_and_download is called directly

vars == <<cfg, files, upstream, clock, run, pc, page, downloaded, posts, idx, dest,
          requests, image_gets, written, existing, processed, seen, refused, fetch_failed,
          reported, prev, sleeps, ratio_args>>

env == <<cfg, upstream, clock, run, prev, ratio_args>>

Exists(path) == \E f \in files : f.path = path

\* the directory after path is opened for writing and src is written to it
WriteFile(fs, path, src, complete) ==
    {f \in fs : f.path # path} \cup {[path |-> path, src |-> src, complete |-> complete]}

Init ==
    /\ cfg \in Configs
    /\ files = {}
    /\ upstream = <<>>
    /\ clock = Epoch
    /\ run = 1
    /\ pc = "while"
    /\ page = 0
    /\ downloaded = 0
    /\ posts = <<>>
    /\ idx = 1
    /\ dest = <<>>
    /\ requests = <<>>
    /\ image_gets = 0
    /\ written = {}
    /\ existing = 0
    /\ processed = 0
    /\ seen = {}
    /\ refused = 0
    /\ fetch_failed = FALSE
    /\ reported = JNull
    /\ prev = <<>>
    /\ sleeps = <<>>
    /\ ratio_args = <<>>

\* mutant: the loop condition lets one more page through
BudgetLeft_OffByOne == downloaded <= cfg.max_images

\* line 172: the loop condition
BudgetLeft == downloaded < cfg.max_images

\* mutant: the check before each record lets one more record through
BudgetReached_OffByOne == downloaded > cfg.max_images

\* line 202: the check before each record
BudgetReached == downloaded >= cfg.max_images

\* mutant: a failed page request is followed by the next turn of the loop (continue)
OnFetchFailed_Continue == "while"

\* line 192: where a failed page request leaves the loop (break)
OnFetchFailed == "summary"

\* mutant: an empty page is followed by the next turn of the loop (continue)
OnEmptyPage_Continue == "while"

\* line 199: where an empty page leaves the loop (break)
OnEmptyPage == "summary"

\* mutant: the existence check never finds the file
AlreadyThere_Never(path) == FALSE

\* line 260
AlreadyThere(path) == Exists(path)

\* mutant: a record found present is passed over without being counted
CountExisting_Not == downloaded

\* line 262: the count after a record is found present
CountExisting == downloaded + 1

\* mutant: a refused download is counted all the same
CountRefused_Counted == downloaded + 1

\* lines 266-268: the count after a refused download
CountRefused == downloaded

\* mutant: no page is taken for the last one
ShortPage_Never == FALSE

\* line 277
ShortPage == Len(posts) < cfg.per_page

\* line 172, the budget is used up: on to line 280
WhileExit ==
    /\ pc = "while"
    /\ ~ BudgetLeft
    /\ pc' = "summary"
    /\ UNCHANGED <<env, files, page, downloaded, posts, idx, dest, requests, image_gets,
                   written, existing, processed, seen, refused, fetch_failed, reported,
                   sleeps>>

\* lines 186-199 once the body is decoded
TakePage(data) ==
    IF NormalizeRaises(data)
    THEN /\ pc' = "crashed"
         /\ UNCHANGED <<posts, idx>>
    ELSE /\ posts' = NormalizePosts(data)
         /\ idx' = 1
         /\ pc' = IF posts' = <<>> THEN OnEmptyPage ELSE "for"

\* how many records the bodies in bs hold
RECURSIVE Held(_)
Held(bs) ==
    IF bs = <<>> THEN 0
    ELSE (IF NormalizeRaises(bs[1]) THEN 0 ELSE Len(NormalizePosts(bs[1]))) + Held(Tail(bs))

\* the bodies the upstream may hold for its next page, given the pages before it
NextBodies == Bodies(Min({cfg.per_page, MaxRecords - Held(upstream)}))

\* lines 172-199: one page request, the rate limiter's wait before it.  The upstream
\* answers page k with the same body whenever it answers, and any request may fail.
FetchPage ==
    /\ pc = "while"
    /\ BudgetLeft
    /\ page' = page + 1
    /\ sleeps' = sane_sleep(Interval(cfg.rps), sleeps)
    /\ requests' = Append(requests, [url |-> PageUrl(cfg, page + 1), auth |-> AuthOf(cfg)])
    /\ \/ /\ fetch_failed' = TRUE
          /\ pc' = OnFetchFailed
          /\ UNCHANGED <<posts, idx, upstream>>
       \/ /\ page + 1 <= Len(upstream)
          /\ TakePage(upstream[page + 1])
          /\ UNCHANGED <<fetch_failed, upstream>>
       \/ /\ page + 1 > Len(upstream)
          /\ \E data \in NextBodies :
                /\ upstream' = Append(upstream, data)
                /\ TakePage(data)
          /\ UNCHANGED fetch_failed
    /\ UNCHANGED <<cfg, clock, run, prev, ratio_args, files, downloaded, dest, image_gets,
                   written, existing, processed, seen, refused, reported>>

\* the clock reading at which run r starts: later than any reading of the runs before
RunStart(r) == Epoch + (r - 1) * (MaxRecords + 1)

\* the readings line 250 may take: since the reading before, the clock has moved on
\* by less than a millisecond or by one
ClockReads(post) == IF NeedsClock(post) THEN {clock, clock + 1} ELSE {clock}

\* lines 201-263: one turn of the for loop, up to the existence check
ForStep ==
    /\ pc = "for"
    /\ IF idx > Len(posts) \/ BudgetReached
       THEN /\ pc' = "page_end"
            /\ UNCHANGED <<clock, downloaded, idx, dest, existing, processed, seen>>
       ELSE /\ processed' = processed + 1
            /\ IF Classify(cfg, posts[idx]) # "accept"
               THEN /\ idx' = idx + 1
                    /\ UNCHANGED <<clock, pc, downloaded, dest, existing, seen>>
               ELSE \E now \in ClockReads(posts[idx]) :
                       /\ clock' = now
                       /\ seen' = seen \cup {[img |-> ImgPath(posts[idx], now),
                                               url |-> get_image_url_from_post(posts[idx]).v]}
                       /\ IF AlreadyThere(ImgPath(posts[idx], now))
                          THEN /\ downloaded' = CountExisting
                               /\ existing' = existing + 1
                               /\ idx' = idx + 1
                               /\ UNCHANGED <<pc, dest>>
                          ELSE /\ pc' = "download"
                               /\ dest' = << [img |-> ImgPath(posts[idx], now),
                                              txt |-> TxtPath(posts[idx], now),
                                              url |-> get_image_url_from_post(posts[idx]).v,
                                              tags |-> get_tags_from_post(posts[idx])] >>
                               /\ UNCHANGED <<downloaded, existing, idx>>
    /\ UNCHANGED <<cfg, upstream, run, prev, ratio_args, files, page, posts, requests,
                   image_gets, written, refused, fetch_failed, reported, sleeps>>

\* download_file and lines 265-268.  The request may fail (lines 105-108: the
\* function returns False and the loop goes on); the body may break off while
\* it is streamed (lines 110-112 raise, the file is there with what was
\* written); or the whole body is written.
download_file ==
    /\ pc = "download"
    /\ image_gets' = image_gets + 1
    /\ \/ /\ pc' = "for"
          /\ idx' = idx + 1
          /\ dest' = <<>>
          /\ refused' = refused + 1
          /\ downloaded' = CountRefused
          /\ UNCHANGED <<files, written>>
       \/ /\ pc' = "crashed"
          /\ files' = WriteFile(files, dest[1].img, dest[1].url, FALSE)
          /\ written' = written \cup {dest[1].img}
          /\ UNCHANGED <<idx, dest, refused, downloaded>>
       \/ /\ pc' = "tags"
          /\ files' = WriteFile(files, dest[1].img, dest[1].url, TRUE)
          /\ written' = written \cup {dest[1].img}
          /\ UNCHANGED <<idx, dest, refused, downloaded>>
    /\ UNCHANGED <<env, page, posts, requests, existing, processed, seen,
                   fetch_failed, reported, sleeps>>

\* lines 271-275: open() may raise; write() raises on tags that are no str, the
\* file being created empty; or the tags are written and the record is counted
WriteTags ==
    /\ pc = "tags"
    /\ \/ /\ pc' = "crashed"
          /\ UNCHANGED <<files, written, downloaded, idx, dest>>
       \/ IF dest[1].tags.t # "str"
          THEN /\ pc' = "crashed"
               /\ files' = WriteFile(files, dest[1].txt, <<>>, TRUE)
               /\ written' = written \cup {dest[1].txt}
               /\ UNCHANGED <<downloaded, idx, dest>>
          ELSE /\ files' = WriteFile(files, dest[1].txt, dest[1].tags.v, TRUE)
               /\ written' = written \cup {dest[1].txt}
               /\ downloaded' = downloaded + 1
               /\ idx' = idx + 1
               /\ dest' = <<>>
               /\ pc' = "for"
    /\ UNCHANGED <<env, page, posts, requests, image_gets, existing, processed, seen,
                   refused, fetch_failed, reported, sleeps>>

\* lines 277-278
PageEnd ==
    /\ pc = "page_end"
    /\ pc' = IF ShortPage THEN "summary" ELSE "while"
    /\ UNCHANGED <<env, files, page, downloaded, posts, idx, dest, requests, image_gets,
                   written, existing, processed, seen, refused, fetch_failed, reported,
                   sleeps>>

\* line 280
Summary ==
    /\ pc = "summary"
    /\ reported' = JInt(downloaded)
    /\ pc' = "done"
    /\ UNCHANGED <<env, files, page, downloaded, posts, idx, dest, requests, image_gets,
                   written, existing, processed, seen, refused, fetch_failed, sleeps>>

\* lines 122-170 of a later run: the same arguments, the directory as it was left
Rerun ==
    /\ pc \in {"done", "crashed"}
    /\ run = 1
    /\ run' = run + 1
    /\ prev' = << [reported |-> reported, fetch_failed |-> fetch_failed,
                    refused |-> refused, pc |-> pc, files |-> files] >>
    /\ clock' = RunStart(run + 1)
    /\ pc' = "while"
    /\ page' = 0
    /\ downloaded' = 0
    /\ posts' = <<>>
    /\ idx' = 1
    /\ dest' = <<>>
    /\ requests' = <<>>
    /\ image_gets' = 0
    /\ written' = {}
    /\ existing' = 0
    /\ processed' = 0
    /\ seen' = {}
    /\ refused' = 0
    /\ fetch_failed' = FALSE
    /\ reported' = JNull
    /\ sleeps' = <<>>
    /\ UNCHANGED <<cfg, files, upstream, ratio_args>>

Next ==
    \/ WhileExit
    \/ FetchPage
    \/ ForStep
    \/ download_file
    \/ WriteTags
    \/ PageEnd
    \/ Summary
    \/ Rerun

Spec == Init /\ [][Next]_vars

\* ---------------------------------------------------------------- main()
\* the values of --ratio
RatioStrings ==
    { <<"1", "6", ":", "9">>, <<"4", "/", "3">>, <<"1", ".", "5">>, <<"0", ":", "5">>,
      <<"-", "1", ":", "2">>, <<"5", ":", "0">>, <<"5", "/", "0">>, <<"x", ":", "y">>,
      <<"1", ":", "2", ":", "3">>, <<"1", ":">>, <<".">>, <<>> }

\* --ratio takes one value or more (nargs='+')
RatioArgLists == UNION {[1..n -> RatioStrings] : n \in 1..MaxRatios}

\* the other arguments of the command line
MainConfig ==
    [api_type |-> "danbooru", max_images |-> 1, per_page |-> 1,
     ratios |-> <<>>, min_w |-> 0, min_h |-> 0, min_score |-> JNull, rps |-> Frac(1, 1),
     tag_query |-> JStr(<<"t">>), username |-> JNull, api_key |-> JNull]

\* line 312: the exceptions the handler catches
Caught(kind) == kind = "ValueError"

\* lines 308-318: the ratios are parsed in order and the first exception ends the
\* list comprehension; a caught one is reported and main returns, any other leaves
\* main as it is raised; with every ratio parsed fetch_and_download is called
MainStart ==
    /\ pc = "main"
    /\ LET parsed == [i \in 1..Len(ratio_args) |-> parse_ratio(ratio_args[i])]
           bad == {i \in 1..Len(ratio_args) : parsed[i].kind # "ok"}
       IN  IF bad = {}
           THEN /\ cfg' = [cfg EXCEPT !.ratios = [i \in 1..Len(ratio_args) |-> parsed[i].val]]
                /\ pc' = "while"
           ELSE /\ pc' = IF Caught(parsed[Min(bad)].kind) THEN "aborted" ELSE "main_crashed"
                /\ UNCHANGED cfg
    /\ UNCHANGED <<files, upstream, clock, run, page, downloaded, posts, idx, dest,
                   requests, image_gets, written, existing, processed, seen, refused,
                   fetch_failed, reported, prev, sleeps, ratio_args>>

\* main() started with one --ratio value or more, the upstream holding PostA first
InitMain ==
    /\ ratio_args \in RatioArgLists
    /\ cfg = MainConfig
    /\ upstream = << JList(<<PostA>>) >>
    /\ files = {}
    /\ clock = Epoch
    /\ run = 1
    /\ pc = "main"
    /\ page = 0
    /\ downloaded = 0
    /\ posts = <<>>
    /\ idx = 1
    /\ dest = <<>>
    /\ requests = <<>>
    /\ image_gets = 0
    /\ written = {}
    /\ existing = 0
    /\ processed = 0
    /\ seen = {}
    /\ refused = 0
    /\ fetch_failed = FALSE
    /\ reported = JNull
    /\ prev = <<>>
    /\ sleeps = <<>>

NextMain == MainStart \/ Next

SpecMain == InitMain /\ [][NextMain]_vars

\* ---------------------------------------------------------------- one record, many shapes
UrlV == <<"/", "v", ".", "m", "p", "4", "?", ".", "j", "p", "g">>

\* a video whose query string ends in an image extension
PostV ==
    [id |-> JInt(5), file_url |-> JStr(UrlV), tag_string |-> JStr(<<"x">>),
     image_width |-> JInt(16), image_height |-> JInt(9), score |-> JInt(9)]

\* a record whose tag_string is a number
PostT == [id |-> JInt(6), file_url |-> JStr(UrlA), tag_string |-> JInt(7)]

\* key k holding v, or nothing when v is None
Field(k, v) == IF v.t = "null" THEN <<>> ELSE k :> v

\* a record of score 5 with the given width and height, either of which may be absent
DimPost(w, h) ==
    [id |-> JInt(7), file_url |-> JStr(UrlA), tag_string |-> JStr(<<"x">>), score |-> JInt(5)]
        @@ Field("width", w) @@ Field("height", h)

DimPosts == {DimPost(w, h) : w \in {JNull, JInt(4), JInt(16)}, h \in {JNull, JInt(3), JInt(9)}}

WidePosts == DimPosts \cup {PostB, PostC, PostD, PostE, PostT, PostV}

\* every pairing of dialect, user and key, with no filter and pages of one record
CredConfigs ==
    { [api_type |-> a, max_images |-> 1, per_page |-> 1,
       ratios |-> <<>>, min_w |-> 0, min_h |-> 0, min_score |-> JNull, rps |-> Frac(0, 1),
       tag_query |-> JStr(<<"t">>), username |-> u, api_key |-> k] :
      a \in {"danbooru", "dapi"}, u \in {JNull, JStr(<<"u">>)}, k \in {JNull, JStr(<<"k">>)} }

\* every pairing of the four filters, each configured or not, with pages of two records
FilterConfigs ==
    { [api_type |-> "danbooru", max_images |-> 1, per_page |-> 2,
       ratios |-> r, min_w |-> mw, min_h |-> mh, min_score |-> ms, rps |-> Frac(0, 1),
       tag_query |-> JStr(<<"t">>), username |-> JNull, api_key |-> JNull] :
      r \in {<<>>, RatioFilter.ratios}, mw \in {0, AllFilters.min_w},
      mh \in {0, AllFilters.min_h}, ms \in {JNull, AllFilters.min_score} }

\* the directory a run may find: empty, or holding a file at the path the record
\* p would be saved to
FoundDirs(p) ==
    { {}, {[path |-> ImgPath(p, Epoch), src |-> <<>>, complete |-> TRUE]} }

\* the records the runs with credentials are served first
CredPosts == {PostC, DimPost(JInt(16), JInt(9))}

\* a run whose first page holds one record
InitWide ==
    /\ \E p \in WidePosts :
          /\ \/ cfg \in FilterConfigs
             \/ cfg \in CredConfigs /\ p \in CredPosts
          /\ upstream = << JList(<<p>>) >>
          /\ files \in FoundDirs(p)
    /\ clock = Epoch
    /\ run = 1
    /\ pc = "while"
    /\ page = 0
    /\ downloaded = 0
    /\ posts = <<>>
    /\ idx = 1
    /\ dest = <<>>
    /\ requests = <<>>
    /\ image_gets = 0
    /\ written = {}
    /\ existing = 0
    /\ processed = 0
    /\ seen = {}
    /\ refused = 0
    /\ fetch_failed = FALSE
    /\ reported = JNull
    /\ prev = <<>>
    /\ sleeps = <<>>
    /\ ratio_args = <<>>

SpecWide == InitWide /\ [][Next]_vars

\* a step of the run at hand
RunStep ==
    \/ WhileExit
    \/ FetchPage
    \/ ForStep
    \/ download_file
    \/ WriteTags
    \/ PageEnd
    \/ Summary

\* The program is sequential and every network call carries a timeout (lines 105
\* and 187), so a run that can take a step takes one.
LiveSpec == Spec /\ WF_vars(RunStep)

\* ---------------------------------------------------------------- properties
SameRun == run' = run

ImagesWritten == {p \in written : p.dir = "images"}

TagsWritten == {p \in written : p.dir = "tags"}

\* the positions of the records of ps that pass every filter
Accepted(ps) == {i \in 1..Len(ps) : Classify(cfg, ps[i]) = "accept"}

\* C1: the downloaded count never exceeds max_images, and once it equals max_images
\* the run issues no page request, processes no record, issues no image request and
\* changes no file.
C1_BudgetCap ==
    /\ [](downloaded <= cfg.max_images)
    /\ [][(downloaded = cfg.max_images /\ SameRun) =>
             /\ requests' = requests
             /\ processed' = processed
             /\ image_gets' = image_gets
             /\ files' = files]_vars

\* the budget is reached on the last record of a full page, and the run ends
\* without asking for the next page
C1_Witness ==
    /\ pc = "done"
    /\ cfg.max_images > 0
    /\ downloaded = cfg.max_images
    /\ Len(posts) = cfg.per_page
    /\ idx = Len(posts) + 1
    /\ processed = Len(posts)

\* the first page request of this run was answered with a list of records
FirstPageAnswered ==
    /\ Len(requests) >= 1
    /\ ~ (fetch_failed /\ Len(requests) = 1)
    /\ Len(upstream) >= 1
    /\ ~ NormalizeRaises(upstream[1])

FirstPage == NormalizePosts(upstream[1])

FilledExactly ==
    /\ Cardinality(ImagesWritten) = cfg.max_images
    /\ Cardinality(TagsWritten) = cfg.max_images
    /\ Len(requests) = 1

\* C2 as stated: a first page with more than max_images accepted records makes the
\* run stop with exactly max_images image files and tag files written and one page
\* request issued.
C2_Original ==
    (pc = "done" /\ FirstPageAnswered /\ Cardinality(Accepted(FirstPage)) > cfg.max_images)
    => FilledExactly

\* C2 as amended: the same, when no accepted record was found already present and
\* every image download and tag write of the run succeeded.
C2_ExactFill ==
    (pc = "done" /\ FirstPageAnswered /\ Cardinality(Accepted(FirstPage)) > cfg.max_images
       /\ existing = 0 /\ refused = 0)
    => (FilledExactly /\ downloaded = cfg.max_images)

C2_Witness ==
    /\ pc = "done"
    /\ FirstPageAnswered
    /\ Cardinality(Accepted(FirstPage)) > cfg.max_images
    /\ existing = 0
    /\ refused = 0
    /\ Cardinality(ImagesWritten) = cfg.max_images
    /\ idx <= Len(posts)

\* the directory as this run found it
Dir0 == IF prev = <<>> THEN {} ELSE prev[1].files

\* the whole image of an accepted record was in the directory when the run started
ContentThere(s) == \E f \in Dir0 : f.path.dir = "images" /\ f.src = s.url /\ f.complete

\* the destination path of an accepted record was in the directory when the run started
PathThere(s) == \E f \in Dir0 : f.path = s.img

\* the run before this one ended at line 280 with no failed request
PrevClean ==
    /\ prev # <<>>
    /\ prev[1].pc = "done"
    /\ ~ prev[1].fetch_failed
    /\ prev[1].refused = 0

\* what C3 says of the re-run
RerunEffects ==
    /\ image_gets = 0
    /\ written = {}
    /\ existing = downloaded
    /\ (pc = "done" /\ PrevClean /\ ~ fetch_failed) => reported = prev[1].reported

\* C3 as stated: a re-run after a run that ended normally, on an unchanged directory
\* that already holds the image of every record the filters accept, issues no image
\* request, writes no file, counts only records found present and ends with the
\* count of the run before.
C3_Original == (run >= 2 /\ PrevClean /\ \A s \in seen : ContentThere(s)) => RerunEffects

\* C3 as amended: the same, when the directory already holds the destination path of
\* every record the filters accept (which a record without an upstream identifier
\* never has: its path is made from the clock).
C3_Idempotent == (run >= 2 /\ \A s \in seen : PathThere(s)) => RerunEffects

C3_Witness ==
    /\ run = 2
    /\ pc = "done"
    /\ PrevClean
    /\ ~ fetch_failed
    /\ Cardinality(seen) >= 2
    /\ \A s \in seen : PathThere(s)
    /\ existing = downloaded
    /\ reported = prev[1].reported

\* C4: a step into or within a state after a failed page request leaves the
\* count and the files as they were, issues no image request and, once the request
\* has failed, no page request; the run goes to the summary line and ends there.
C4_FetchFailureStops ==
    [][(fetch_failed' /\ SameRun) =>
          /\ pc' \in {"summary", "done"}
          /\ downloaded' = downloaded
          /\ files' = files
          /\ image_gets' = image_gets
          /\ fetch_failed => requests' = requests]_vars

\* a later page request failed after records had been downloaded, and the run ended
\* reporting them
C4_Witness ==
    /\ fetch_failed
    /\ pc = "done"
    /\ Len(requests) >= 2
    /\ ImagesWritten # {}
    /\ downloaded > 0
    /\ reported = JInt(downloaded)

\* C5: an image download that does not succeed leaves the count as it was and the
\* loop at the next record.
C5_DownloadFailureLocal ==
    [][(pc = "download" /\ pc' # "tags") =>
          /\ pc' = "for"
          /\ idx' = idx + 1
          /\ downloaded' = downloaded]_vars

\* C6: a run that has ended has printed the summary line.
C6_SummaryPrinted == pc \in {"done", "crashed"} => reported.t = "int"

\* the page at hand is a short one
ShortHeld == 0 < Len(posts) /\ Len(posts) < cfg.per_page

InForLoop == pc \in {"for", "download", "tags"}

\* C7: with a short page at hand the records are taken one after the other, the for
\* loop is left only when all are done or the budget is reached, and no page request
\* follows.
C7_ShortPageProcessed ==
    [][(ShortHeld /\ SameRun) =>
          /\ requests' = requests
          /\ idx' \in {idx, idx + 1}
          /\ (InForLoop /\ ~ InForLoop') => (idx > Len(posts) \/ downloaded >= cfg.max_images)]_vars

\* the last page request of this run was answered with a body that holds no record
EmptyLast ==
    /\ page >= 1
    /\ page <= Len(upstream)
    /\ page = Len(requests)
    /\ ~ fetch_failed
    /\ ~ NormalizeRaises(upstream[page])
    /\ NormalizePosts(upstream[page]) = <<>>

\* C8: the step that receives an empty page, and every later step of the run,
\* processes no record, leaves the count and the files as they were and goes to the
\* summary line, which reports the count; no page request follows.
C8_EmptyPageStops ==
    [][(EmptyLast' /\ SameRun) =>
          /\ pc' \in {"summary", "done"}
          /\ downloaded' = downloaded
          /\ processed' = processed
          /\ files' = files
          /\ EmptyLast => requests' = requests
          /\ pc' = "done" => reported' = JInt(downloaded)]_vars

\* an empty page after a page whose records were downloaded
C8_Witness ==
    /\ EmptyLast
    /\ pc = "done"
    /\ page >= 2
    /\ downloaded > 0
    /\ downloaded < cfg.max_images
    /\ reported = JInt(downloaded)

\* the parameter that carries the page cursor in each dialect
CursorKey == IF cfg.api_type = "danbooru" THEN "page" ELSE "pid"

\* C9: the k-th page request of a run carries cursor k in the paginated dialect and
\* k - 1 in the offset dialect.
C9_CursorProtocol ==
    \A k \in 1..Len(requests) :
        ParamValues(requests[k].url, CursorKey)
            = {JInt(IF cfg.api_type = "danbooru" THEN k ELSE k - 1)}

C9_Witness ==
    /\ cfg.api_type = "dapi"
    /\ Len(requests) = 3
    /\ ParamValues(requests[1].url, "pid") = {JInt(0)}
    /\ ParamValues(requests[3].url, "pid") = {JInt(2)}

\* C10: with a ratio set configured, a record that gets as far as the download has
\* its width and its height, the height is not 0, and width/height is within 2% of
\* a configured ratio.
C10_RatioRejectsUnknown ==
    (pc \in {"download", "tags"} /\ cfg.ratios # <<>>) =>
        LET d == get_dimensions(posts[idx])
        IN  /\ d[1].t = "int"
            /\ d[2].t = "int"
            /\ d[2].v[1] # 0
            /\ \E i \in 1..Len(cfg.ratios) : WithinTolerance(d[1].v[1], d[2].v[1], cfg.ratios[i])

\* the rate-limiter interval is 1/rps
IsInverse(i, rps) == i.num * rps.num = i.den * rps.den

\* C16: with rps > 0 the run has slept once, for 1/rps, for every page request it
\* has issued (each page request adds exactly one wait); with rps <= 0 it never
\* sleeps; an image request adds no wait.
C16_RateLimit ==
    /\ [](IF cfg.rps.num > 0
          THEN /\ Len(sleeps) = Len(requests)
               /\ \A k \in 1..Len(sleeps) : IsInverse(sleeps[k], cfg.rps)
          ELSE sleeps = <<>>)
    /\ [][(requests' # requests /\ SameRun /\ cfg.rps.num > 0) =>
             (Len(requests') = Len(requests) + 1 /\ Len(sleeps') = Len(sleeps) + 1)]_vars
    /\ [][(image_gets' # image_gets /\ SameRun) => sleeps' = sleeps]_vars

\* two page requests with an image download between them, a wait before each request
C16_Witness ==
    /\ cfg.rps.num > 0
    /\ Len(requests) = 2
    /\ image_gets >= 1
    /\ Len(sleeps) = 2
    /\ pc = "done"

\* the last page request of this run was answered with a list or an object
Answered ==
    /\ page >= 1
    /\ page = Len(requests)
    /\ page <= Len(upstream)
    /\ ~ fetch_failed
    /\ upstream[page].t \in {"list", "dict"}

\* the raw post records of a response: the items of a bare list, what an object
\* holds under "post" or "posts", and else the object itself as the one record
RecordsOf(data) ==
    IF data.t = "list" THEN data.v
    ELSE IF data.v = <<>> THEN <<>>
    ELSE LET held == PyOr(DictGet(data, "post"), DictGet(data, "posts"))
         IN  IF held.t = "list" THEN held.v
             ELSE IF held.t = "dict" THEN held.v
             ELSE data.v

\* C13: the records the loop takes from an answered page are the raw post records of
\* the response, whichever of the three shapes it has.
C13_ShapesNormalized == Answered => posts = RecordsOf(upstream[page])

\* the record found present is counted and passed over
C14_Effects ==
    /\ image_gets' = image_gets
    /\ files' = files
    /\ written' = written
    /\ downloaded' = downloaded + 1
    /\ idx' = idx + 1
    /\ pc' = "for"

\* C14: when the loop takes a record that passes the filters and whose destination
\* image path exists, that step issues no image request, leaves every file as it
\* is, adds one to the count and moves to the next record.
C14_SkipIfExists ==
    [][(/\ pc = "for"
        /\ idx <= Len(posts)
        /\ downloaded < cfg.max_images
        /\ Classify(cfg, posts[idx]) = "accept"
        /\ \E f \in files : f.path = ImgPath(posts[idx], clock')) => C14_Effects]_vars

\* the second record of a page is the one just downloaded: it is counted, not fetched
C14_Witness ==
    /\ run = 1
    /\ pc = "done"
    /\ existing = 1
    /\ image_gets = 1
    /\ Cardinality(written) = 2
    /\ downloaded = 2

\* a file name without its extension
Stem(name) == SubSeq(name, 1, RFind(name, ".") - 1)

\* the whole image that goes with tag file t is in the directory, written by this run
ImageOfTag(t) ==
    \E f \in files :
        /\ f.path.dir = "images"
        /\ Stem(f.path.name) = Stem(t.name)
        /\ f.complete
        /\ f.path \in written

\* the loop takes a record and a filter, or the lack of an image URL, turns it down
RejectStep ==
    /\ pc = "for"
    /\ idx <= Len(posts)
    /\ downloaded < cfg.max_images
    /\ Classify(cfg, posts[idx]) # "accept"

\* the image request of the record at hand is refused, or its body breaks off
DownloadFails == pc = "download" /\ pc' # "tags"

\* C18: every tag file the run has written has its whole image in the directory;
\* a tag file is written only for the record whose image this run has just
\* downloaded in full; the count goes up for a downloaded record only in the step
\* that writes its tag file; and a record that is turned down or whose download
\* fails gets no tag file and leaves the count as it was.
C18_Ordering ==
    /\ [](\A t \in TagsWritten : ImageOfTag(t))
    /\ [][(TagsWritten' # TagsWritten /\ SameRun) =>
             /\ pc = "tags"
             /\ TagsWritten' = TagsWritten \cup {dest[1].txt}
             /\ \E f \in files : f.path = dest[1].img /\ f.complete /\ f.path \in written]_vars
    /\ [][(downloaded' # downloaded /\ existing' = existing /\ SameRun) =>
             /\ downloaded' = downloaded + 1
             /\ pc = "tags"
             /\ \E f \in files' : f.path = dest[1].txt /\ f.src = dest[1].tags.v]_vars
    /\ [][(RejectStep \/ DownloadFails) =>
             (TagsWritten' = TagsWritten /\ files' \ files \subseteq {f \in files' : f.path.dir = "images"}
              /\ downloaded' = downloaded)]_vars

\* a run that turned a record down, had a download refused and downloaded another
C18_Witness ==
    /\ pc = "done"
    /\ refused = 1
    /\ processed = 2
    /\ Cardinality(TagsWritten) = 1
    /\ Cardinality(ImagesWritten) = 1
    /\ downloaded = 1
    /\ existing = 0

\* C19: after an image download that does not succeed, no file is at the destination
\* image path.
C19_NoFileLeft ==
    [][DownloadFails => ~ \E f \in files' : f.path = dest[1].img]_vars

\* how many of this run's page requests were answered with a full page
FullPages ==
    Cardinality({k \in 1..Len(requests) :
                    /\ k <= Len(upstream)
                    /\ ~ (fetch_failed /\ k = Len(requests))
                    /\ ~ NormalizeRaises(upstream[k])
                    /\ Len(NormalizePosts(upstream[k])) >= cfg.per_page})

Ended == pc \in {"done", "crashed"}

\* C20: every run ends (the upstream holds finitely many records, so some page is
\* short or empty unless a request fails or the budget is reached first); no URL
\* is requested twice in a run, and the page requests are at most one more than
\* the full pages returned.
C20_Termination ==
    /\ (~ Ended) ~> Ended
    /\ [](Len(requests) <= 1 + FullPages)
    /\ [](\A j, k \in 1..Len(requests) : requests[j].url = requests[k].url => j = k)

\* a run that ended after two full pages and a third request
C20_Witness ==
    /\ pc = "done"
    /\ FullPages = 2
    /\ Len(requests) = 3

\* the loop is about to take the record at idx
TakesRecord == pc = "for" /\ idx <= Len(posts) /\ downloaded < cfg.max_images

\* the step lets the record through the filters: on to the download, or counted as present
PassesFilters == pc' = "download" \/ existing' = existing + 1

\* dimension key k of a record is there and not below the configured minimum
DimOk(post, k, minimum) ==
    minimum = 0 \/ (k \in DOMAIN post /\ post[k].t = "int" /\ post[k].v[1] >= minimum)

\* C11: with no ratio and no score filter configured, a record with an image URL
\* passes exactly when its width is there and not below a configured minimum width
\* and its height is there and not below a configured minimum height, each on its own.
C11_MinDimsIndependent ==
    [][(TakesRecord /\ posts[idx] \in DimPosts /\ cfg.ratios = <<>> /\ cfg.min_score.t = "null") =>
          (PassesFilters <=> (/\ DimOk(posts[idx], "width", cfg.min_w)
                              /\ DimOk(posts[idx], "height", cfg.min_h)))]_vars

\* the records whose URL path ends in a video or animation extension
Videos == {PostC, PostV}

\* C12: the step that takes a video record leaves the count, the files and the image
\* requests as they were and moves to the next record, and no video record is ever
\* taken to the existence check.
C12_VideoNeverTaken ==
    /\ [][(TakesRecord /\ posts[idx] \in Videos) =>
             /\ downloaded' = downloaded
             /\ existing' = existing
             /\ image_gets' = image_gets
             /\ files' = files
             /\ seen' = seen
             /\ pc' = "for"
             /\ idx' = idx + 1]_vars
    /\ [](\A v \in Videos : \A s \in seen : s.url # v.file_url.v)

\* a video that every configured filter would let through, with a file already at the
\* path it would be saved to, has been passed over
C12_Witness ==
    /\ upstream[1] = JList(<<PostC>>)
    /\ cfg.ratios # <<>>
    /\ cfg.min_w > 0
    /\ cfg.min_h > 0
    /\ cfg.min_score.t = "int"
    /\ Exists(ImgPath(PostC, Epoch))
    /\ processed = 1
    /\ pc = "done"
    /\ reported = JInt(0)

\* x is configured: a string that is not empty
Configured(x) == x.t = "str" /\ x.v # <<>>

BothConfigured == Configured(cfg.username) /\ Configured(cfg.api_key)

\* the query parameter names of a URL
ParamKeys(url) == {url.params[i].k : i \in 1..Len(url.params)}

\* C17: a page request of the offset dialect carries api_key and user_id, with the
\* configured values, exactly when both are configured, and neither otherwise; a page
\* request of the paginated dialect carries neither, and has the basic-auth pair
\* (user, key) attached exactly when both are configured.
C17_CredentialPlacement ==
    \A i \in 1..Len(requests) :
        LET r == requests[i]
        IN  IF cfg.api_type = "danbooru"
            THEN /\ ParamKeys(r.url) \cap {"api_key", "user_id"} = {}
                 /\ r.auth = (IF BothConfigured THEN JList(<<cfg.username.v, cfg.api_key.v>>)
                              ELSE JNull)
            ELSE /\ ParamValues(r.url, "api_key") = (IF BothConfigured THEN {cfg.api_key} ELSE {})
                 /\ ParamValues(r.url, "user_id") = (IF BothConfigured THEN {cfg.username} ELSE {})

\* the offset dialect with a key and no user: two page requests, neither with credentials
C17_Witness ==
    /\ cfg.api_type = "dapi"
    /\ Configured(cfg.api_key)
    /\ ~ Configured(cfg.username)
    /\ Len(requests) = 2
    /\ ParamKeys(requests[2].url) \cap {"api_key", "user_id"} = {}

\* the --ratio values with a part that is no number or with a zero denominator
BadRatios ==
    { <<"5", ":", "0">>, <<"5", "/", "0">>, <<"x", ":", "y">>, <<"1", ":", "2", ":", "3">>,
      <<"1", ":">>, <<".">>, <<>> }

GivenBadRatio == \E i \in 1..Len(ratio_args) : ratio_args[i] \in BadRatios

\* nothing has gone to the network
NoNetwork == requests = <<>> /\ image_gets = 0 /\ sleeps = <<>>

\* C15: once main() has parsed a command line with a bad --ratio value, it has
\* reported the invalid ratio and returned, and nothing has gone to the network.
C15_InvalidRatioAborts ==
    (GivenBadRatio /\ pc # "main") => (pc = "aborted" /\ NoNetwork)

====
